---- MODULE Spec2Model ----
(***************************************************************************)
(* Two-stage weather pipeline (vbutto/otus-hw07).                          *)
(*   stage 1: src/function1_weather_context.py   (handler_f1)              *)
(*   stage 2: src/function2_weather_forecast.py  (handler_f2)              *)
(* Every Python function is an operator; an invocation of a handler is one *)
(* action whose inputs (event, outcome of each external call) are drawn    *)
(* from small sets.  Effects (provider calls, generator calls, telemetry   *)
(* rows, outbound forecast calls) are returned by the operators and stored *)
(* by the action.                                                          *)
(***************************************************************************)
EXTENDS Integers, Sequences, FiniteSets, TLC

VARIABLES
    phase,              \* "ready": waiting for an event, "done": responded
    WEATHER_API_KEY,    \* stage-2 environment (os.environ.get, line 61)
    f2_event,           \* event given to the stage-2 handler
    f2_prov,            \* what the provider answered, if it was contacted
    f2_resp,            \* response envelope of the stage-2 handler
    provider_calls,     \* outbound provider requests of this invocation
    mock_calls,         \* calls of generate_mock_forecast_by_coords
    f1_env,             \* stage-1 module globals (lines 13-21, 32-41)
    f1_event,           \* event given to the stage-1 handler
    f1_resp,            \* what the stage-1 handler returned (or that it raised)
    db_log,             \* what _save_stats was given and what it logged
    db_rows,            \* telemetry rows committed by this invocation
    f2_calls,           \* outbound forecast calls of this invocation
    f2_code,            \* the status _call_f2 reported (0: it was not called)
    f2_net,             \* what the network did with the forecast call, if one was made
    ref_resp,           \* the same invocation with the telemetry write succeeding
    ref_calls,
    norm_in,            \* payload and day count given to process_yandex_weather_data
    norm_at,            \* the moments of its two runs
    norm_first,         \* what the first run returned
    norm_second         \* what the second run returned

vars2 == <<WEATHER_API_KEY, f2_event, f2_prov, f2_resp, provider_calls, mock_calls>>
vars1 == <<f1_env, f1_event, f1_resp, db_log, db_rows, f2_calls, f2_code, f2_net>>
varsRef == <<ref_resp, ref_calls>>
varsNorm == <<norm_in, norm_at, norm_first, norm_second>>
vars == <<phase, vars2, vars1, varsRef, varsNorm>>

----------------------------------------------------------------------------
(* Bounds of the model *)

\* longest forecast list a provider payload carries
MaxProviderDays == 3
\* the stage-2 requests carry days in -1..MaxReqDays
MaxReqDays == 8
\* longest forecast list of the payloads given to the normalizer alone
MaxNormDays == 2

----------------------------------------------------------------------------
(* Python values.  Numbers are integers; t tells the Python type. *)

NONE    == [t |-> "none",   n |-> 0, s |-> <<>>]
ABSENT  == [t |-> "absent", n |-> 0, s |-> <<>>]   \* key not in the dict
NAN     == [t |-> "nan",    n |-> 0, s |-> <<>>]   \* float('nan')
Num(n)  == [t |-> "num",    n |-> n, s |-> <<>>]
Str(s)  == [t |-> "str",    n |-> 0, s |-> s]

\* d.get(key): a missing key reads as None
Get(v) == IF v = ABSENT THEN NONE ELSE v
\* d.get(key, default)
GetOr(v, default) == IF v = ABSENT THEN default ELSE v

Min(a, b) == IF a <= b THEN a ELSE b
Max(a, b) == IF a >= b THEN a ELSE b

Digits == {"0", "1", "2", "3", "4", "5", "6", "7", "8", "9"}

DigitVal(c) ==
    CASE c = "0" -> 0 [] c = "1" -> 1 [] c = "2" -> 2 [] c = "3" -> 3
      [] c = "4" -> 4 [] c = "5" -> 5 [] c = "6" -> 6 [] c = "7" -> 7
      [] c = "8" -> 8 [] c = "9" -> 9

IsDigits(s) == Len(s) > 0 /\ \A i \in 1..Len(s) : s[i] \in Digits

RECURSIVE DecValue(_)
DecValue(s) ==
    IF s = <<>> THEN 0
    ELSE 10 * DecValue(SubSeq(s, 1, Len(s) - 1)) + DigitVal(s[Len(s)])

\* A decimal integer literal: optional sign, then digits.
IsIntText(s) ==
    \/ IsDigits(s)
    \/ Len(s) > 1 /\ s[1] \in {"-", "+"} /\ IsDigits(Tail(s))

IntTextValue(s) ==
    IF s[1] = "-" THEN 0 - DecValue(Tail(s))
    ELSE IF s[1] = "+" THEN DecValue(Tail(s))
    ELSE DecValue(s)

\* Result of a conversion: it raised, or it produced a value.
Raised   == [ok |-> FALSE, val |-> NONE]
Value(v) == [ok |-> TRUE,  val |-> v]

\* int(x): a number stays, a string must be an integer literal, anything
\* else (None, "abc", "nan") raises TypeError / ValueError.
PyInt(v) ==
    CASE v.t = "num" -> Value(v)
      [] v.t = "str" -> IF IsIntText(v.s) THEN Value(Num(IntTextValue(v.s))) ELSE Raised
      [] OTHER -> Raised

\* float(x): as int(x) on the integer literals the model feeds it, and
\* "nan" parses to the float NaN.
PyFloat(v) ==
    CASE v.t = "num" -> Value(v)
      [] v.t = "str" -> IF v.s = <<"n", "a", "n">> THEN Value(NAN)
                        ELSE IF IsIntText(v.s) THEN Value(Num(IntTextValue(v.s)))
                        ELSE Raised
      [] OTHER -> Raised

DigitChar(d) ==
    CASE d = 0 -> "0" [] d = 1 -> "1" [] d = 2 -> "2" [] d = 3 -> "3" [] d = 4 -> "4"
      [] d = 5 -> "5" [] d = 6 -> "6" [] d = 7 -> "7" [] d = 8 -> "8" [] d = 9 -> "9"

RECURSIVE NatText(_)
NatText(n) == IF n < 10 THEN <<DigitChar(n)>> ELSE NatText(n \div 10) \o <<DigitChar(n % 10)>>

\* str(n) of an int
IntText(n) == IF n < 0 THEN <<"-">> \o NatText(0 - n) ELSE NatText(n)

\* str(x) of a float with an integral value: "55.0"
FloatText(n) == IntText(n) \o <<".", "0">>

\* seq[:n] of Python: a negative n counts from the end.
PySlice(seq, n) ==
    IF n >= 0 THEN SubSeq(seq, 1, Min(n, Len(seq)))
    ELSE SubSeq(seq, 1, Max(Len(seq) + n, 0))

----------------------------------------------------------------------------
(* Stage 2: src/function2_weather_forecast.py *)

\* Moments at which datetime.now() is read.
Clock == 0..1

\* Temperatures of a provider payload are in tenths of a degree, so that
\* int() has something to truncate.
IntOfTenths(x) == IF x >= 0 THEN x \div 10 ELSE 0 - ((0 - x) \div 10)

\* int(v) for a temperature value
TempInt(v) == IntOfTenths(v.n)

NoDoc == [forecast_days |-> 0, forecast |-> <<>>, generated_at |-> 0, data_source |-> "none"]

\* What an operator that may raise hands back, with the effects it had:
\* mocks counts the calls of generate_mock_forecast_by_coords.
Ok(doc, mocks)    == [exc |-> FALSE, doc |-> doc,   mocks |-> mocks]
Raise(mocks)      == [exc |-> TRUE,  doc |-> NoDoc, mocks |-> mocks]

\* The name `datetime` inside generate_mock_forecast_by_coords: the local
\* `import datetime` binds it to the module, not to the class imported at the
\* top of the file.
LocalDatetime == "module"

\* datetime.now exists on the class only.
HasNow(binding) == binding = "class"

\* for i in range(days): one entry per i; the random draws of an entry are
\* left out, only its date offset is kept.
MockDay(i) == [date |-> i, day |-> 0, min |-> 0, max |-> 0, feels_like |-> 0]

generate_mock_forecast_by_coords(lat, lon, days, now) ==
    IF ~(lat.t \in {"num", "nan"} /\ lon.t \in {"num", "nan"})
    THEN Raise(1)                                   \* f"{lat:.2f}"
    ELSE LET forecast_list == [i \in 1..Max(days, 0) |-> MockDay(i - 1)]
         IN IF ~HasNow(LocalDatetime)
            THEN Raise(1)                           \* datetime.now() on the module
            ELSE Ok([forecast_days |-> days,
                     forecast      |-> forecast_list,
                     generated_at  |-> now,
                     data_source   |-> "Mock data"], 1)

\* the current conditions applied to every day, not only the first
NormalizeDay_fact_every_day(i, d, fact) ==
    LET entry(avg, tmin, tmax, feels, avgOr0) ==
            [date       |-> d.date,
             day        |-> IF avg # NONE THEN TempInt(avg) ELSE 0,
             min        |-> IF tmin # NONE THEN TempInt(tmin) ELSE avgOr0 - 3,
             max        |-> IF tmax # NONE THEN TempInt(tmax) ELSE avgOr0 + 3,
             feels_like |-> IF feels # NONE THEN TempInt(feels) ELSE avgOr0]
        \* avg_temp or 0
        withAvg(avg, tmin, tmax, feels) ==
            entry(avg, tmin, tmax, feels, IF avg = NONE \/ avg.n = 0 THEN 0 ELSE TempInt(avg))
        \* the current conditions replace the first day's values
        withFact(first, avg0, tmin, tmax, feels0) ==
            withAvg(IF first THEN GetOr(fact.temp, avg0) ELSE avg0, tmin, tmax,
                    IF first THEN GetOr(fact.feels_like, feels0) ELSE feels0)
        withDay(avg0) ==
            withFact(fact.nonempty, avg0, Get(d.temp_min), Get(d.temp_max),
                     GetOr(d.feels_like, avg0))
    IN withDay(Get(d.temp_avg))

\* One entry of the canonical forecast list from one provider day.
NormalizeDay(i, d, fact) ==
    LET entry(avg, tmin, tmax, feels, avgOr0) ==
            [date       |-> d.date,
             day        |-> IF avg # NONE THEN TempInt(avg) ELSE 0,
             min        |-> IF tmin # NONE THEN TempInt(tmin) ELSE avgOr0 - 3,
             max        |-> IF tmax # NONE THEN TempInt(tmax) ELSE avgOr0 + 3,
             feels_like |-> IF feels # NONE THEN TempInt(feels) ELSE avgOr0]
        \* avg_temp or 0
        withAvg(avg, tmin, tmax, feels) ==
            entry(avg, tmin, tmax, feels, IF avg = NONE \/ avg.n = 0 THEN 0 ELSE TempInt(avg))
        \* the current conditions replace the first day's values
        withFact(first, avg0, tmin, tmax, feels0) ==
            withAvg(IF first THEN GetOr(fact.temp, avg0) ELSE avg0, tmin, tmax,
                    IF first THEN GetOr(fact.feels_like, feels0) ELSE feels0)
        withDay(avg0) ==
            withFact(i = 1 /\ fact.nonempty, avg0, Get(d.temp_min), Get(d.temp_max),
                     GetOr(d.feels_like, avg0))
    IN withDay(Get(d.temp_avg))

\* forecast_days taken from the request instead of the list
process_yandex_weather_data_requested(data, requested_days, now) ==
    IF data.shape # "ok"
    THEN generate_mock_forecast_by_coords(Num(0), Num(0), requested_days, now)
    ELSE LET days == PySlice(data.forecasts, requested_days)
             forecast_list == [i \in 1..Len(days) |-> NormalizeDay(i, days[i], data.fact)]
         IN Ok([forecast_days |-> requested_days,
                forecast      |-> forecast_list,
                generated_at  |-> now,
                data_source   |-> "Yandex Weather API"], 0)

\* entries dated from the clock, as the generator dates its own
process_yandex_weather_data_dated_by_clock(data, requested_days, now) ==
    IF data.shape # "ok"
    THEN generate_mock_forecast_by_coords(Num(0), Num(0), requested_days, now)
    ELSE LET days == PySlice(data.forecasts, requested_days)
             forecast_list ==
                 [i \in 1..Len(days) |->
                     [NormalizeDay(i, days[i], data.fact) EXCEPT !.date = now + i]]
         IN Ok([forecast_days |-> Len(forecast_list),
                forecast      |-> forecast_list,
                generated_at  |-> now,
                data_source   |-> "Yandex Weather API"], 0)

process_yandex_weather_data(data, requested_days, now) ==
    IF data.shape # "ok"
    THEN \* an exception inside the try: the except branch calls the generator
         generate_mock_forecast_by_coords(Num(0), Num(0), requested_days, now)
    ELSE LET days == PySlice(data.forecasts, requested_days)
             forecast_list == [i \in 1..Len(days) |-> NormalizeDay(i, days[i], data.fact)]
         IN Ok([forecast_days |-> Len(forecast_list),
                forecast      |-> forecast_list,
                generated_at  |-> now,
                data_source   |-> "Yandex Weather API"], 0)

\* Provider answers
NoFact    == [nonempty |-> FALSE, temp |-> ABSENT, feels_like |-> ABSENT]
NoPayload == [shape |-> "none", fact |-> NoFact, forecasts |-> <<>>]
NoProv    == [kind |-> "none", status |-> 0, payload |-> NoPayload]
ProvExc   == [kind |-> "exception", status |-> 0, payload |-> NoPayload]
ProvResp(status, payload) == [kind |-> "response", status |-> status, payload |-> payload]

\* "mock" taken for no key
Falsy_or_mock(key) == key = NONE \/ key = Str(<<>>) \/ key = Str(<<"m", "o", "c", "k">>)

\* if not api_key
Falsy(key) == key = NONE \/ key = Str(<<>>)

\* The request get_weather_forecast sends to the provider.
ProviderRequest(lat, lon, days, api_key) ==
    [provider |-> "primary", key |-> api_key, lat |-> lat, lon |-> lon, limit |-> Min(days, 7)]

\* Result: exc/doc/mocks as above, calls: the provider requests made.
get_weather_forecast(lat, lon, days, api_key, prov, now) ==
    LET result(r, calls) ==
            [exc |-> r.exc, doc |-> r.doc, mocks |-> r.mocks, calls |-> calls]
        \* except requests.RequestException / except Exception: both return
        \* the generator's document, and the generator's exception escapes
        handled(mock, r, calls) ==
            IF r.exc
            THEN result([mock EXCEPT !.mocks = r.mocks + mock.mocks], calls)
            ELSE result(r, calls)
        \* the body of the try, up to an exception
        tried(mock, call) ==
            IF Falsy(api_key) THEN handled(mock, mock, <<>>)
            ELSE IF prov.kind = "exception" THEN handled(mock, Raise(0), call)
            ELSE IF prov.status # 200 THEN handled(mock, mock, call)
            ELSE IF prov.payload.shape = "badjson" THEN handled(mock, Raise(0), call)
            ELSE handled(mock, process_yandex_weather_data(prov.payload, days, now), call)
    IN tried(generate_mock_forecast_by_coords(lat, lon, days, now),
             <<ProviderRequest(lat, lon, days, api_key)>>)

\* Response of the stage-2 handler with the effects of the invocation.
F2Out(status, error, doc, calls, mocks) ==
    [statusCode |-> status, error |-> error, doc |-> doc, calls |-> calls, mocks |-> mocks]

\* body.get(...) needs a dict: the body as the handler sees it after parsing
F2Body(event) ==
    CASE event.body.kind = "str" ->
            IF event.body.json = "ok" THEN Value(event.body) ELSE Raised   \* json.loads
      [] event.body.kind = "none" -> Raised                                \* None.get
      [] event.body.kind = "absent" ->
            Value([event.body EXCEPT !.lat = ABSENT, !.lon = ABSENT, !.days = ABSENT])
      [] OTHER -> Value(event.body)

handler_f2(event, api_key, prov, now) ==
    LET respond(f) ==
            IF f.exc
            THEN F2Out(500, "Internal server error", NoDoc, f.calls, f.mocks)
            ELSE F2Out(200, "", f.doc, f.calls, f.mocks)
        checked(lat, lon, days) ==
            IF ~days.ok                                              \* int(days)
            THEN F2Out(500, "Internal server error", NoDoc, <<>>, 0)
            ELSE IF lat = NONE \/ lon = NONE
            THEN F2Out(400, "Latitude and longitude parameters are required", NoDoc, <<>>, 0)
            ELSE respond(get_weather_forecast(lat, lon, days.val.n, api_key, prov, now))
        parsed(body) ==
            IF ~body.ok
            THEN F2Out(500, "Internal server error", NoDoc, <<>>, 0)
            ELSE checked(Get(body.val.lat), Get(body.val.lon),
                         PyInt(GetOr(body.val.days, Num(5))))
    IN parsed(F2Body(event))

----------------------------------------------------------------------------
(* Stage 1: src/function1_weather_context.py *)

\* Body of a forecast-call response as stage 1 sees it: parsed JSON, raw
\* text, or the dict an error path builds.
F2Result(form, error, doc) == [form |-> form, error |-> error, doc |-> doc]
NoResult == F2Result("none", "", NoDoc)

NoRequested == [lat |-> NONE, lon |-> NONE, days |-> NONE, user_id |-> NONE]

\* {"statusCode": status, "headers": _cors(), "body": json.dumps(payload)}
_ok(req_id, requested, result, status) ==
    [raised |-> FALSE, statusCode |-> status, error |-> "",
     req_id |-> req_id, requested |-> requested, result |-> result]

\* {"statusCode": status, ..., "body": {"error": msg}}
_err(msg, status) ==
    [raised |-> FALSE, statusCode |-> status, error |-> msg,
     req_id |-> NONE, requested |-> NoRequested, result |-> NoResult]

\* The handler did not return: an exception left it.
F1Raised ==
    [raised |-> TRUE, statusCode |-> 0, error |-> "",
     req_id |-> NONE, requested |-> NoRequested, result |-> NoResult]

\* -90 <= x <= 90 on a float: every comparison with NaN is false
Between(lo, v, hi) == v.t = "num" /\ lo <= v.n /\ v.n <= hi

\* _parse without the range check of lon
_parse_no_lon_check(event) ==
    LET bad(msg) == [ok |-> FALSE, msg |-> msg, lat |-> NONE, lon |-> NONE,
                     days |-> NONE, user_id |-> NONE]
        checked(lat, lon, days, user_id) ==
            IF ~lat.ok \/ ~lon.ok \/ ~days.ok
            THEN bad("lat/lon must be numeric and days must be integer")
            ELSE IF ~Between(-90, lat.val, 90)
            THEN bad("lat must be [-90..90], lon must be [-180..180]")
            ELSE IF ~(1 <= days.val.n /\ days.val.n <= 7)
            THEN bad("days must be 1..7")
            ELSE [ok |-> TRUE, msg |-> "", lat |-> lat.val, lon |-> lon.val,
                  days |-> days.val, user_id |-> user_id]
    IN checked(PyFloat(Get(event.qs.lat)),
               PyFloat(Get(event.qs.lon)),
               PyInt(GetOr(event.qs.days, Num(5))),
               GetOr(event.qs.user_id, Str(<<"a", "n", "o", "n">>)))

_parse(event) ==
    LET bad(msg) == [ok |-> FALSE, msg |-> msg, lat |-> NONE, lon |-> NONE,
                     days |-> NONE, user_id |-> NONE]
        checked(lat, lon, days, user_id) ==
            IF ~lat.ok \/ ~lon.ok \/ ~days.ok
            THEN bad("lat/lon must be numeric and days must be integer")
            ELSE IF ~Between(-90, lat.val, 90) \/ ~Between(-180, lon.val, 180)
            THEN bad("lat must be [-90..90], lon must be [-180..180]")
            ELSE IF ~(1 <= days.val.n /\ days.val.n <= 7)
            THEN bad("days must be 1..7")
            ELSE [ok |-> TRUE, msg |-> "", lat |-> lat.val, lon |-> lon.val,
                  days |-> days.val, user_id |-> user_id]
    IN checked(PyFloat(Get(event.qs.lat)),
               PyFloat(Get(event.qs.lon)),
               PyInt(GetOr(event.qs.days, Num(5))),
               GetOr(event.qs.user_id, Str(<<"a", "n", "o", "n">>)))

\* Steps of the telemetry write, in order; db names the step that fails
\* ("ok": none).  The row exists once commit has returned.
DbSteps == <<"connect", "create", "insert", "commit", "close">>
DbCommitted(db) == db \in {"ok", "close"}

\* What _save_stats was called with and the line it logged.
DbLog(line, step, lat, lon, days) ==
    [line |-> line, step |-> step, lat |-> lat, lon |-> lon, days |-> days]
NoDbLog == DbLog("none", "", NONE, NONE, NONE)

\* _save_stats without its try/except: a failing step raises
_save_stats_raising(env, db, user_id, lat, lon, days, req_id) ==
    IF ~env.psycopg2
    THEN [raised |-> FALSE, rows |-> <<>>,
          log |-> DbLog("db_skip reason=no_psycopg2", "", lat, lon, days)]
    ELSE IF ~env.DB_ENV
    THEN [raised |-> FALSE, rows |-> <<>>,
          log |-> DbLog("db_skip reason=env_incomplete", "", lat, lon, days)]
    ELSE [raised |-> db # "ok",
          rows |-> IF DbCommitted(db)
                   THEN <<[user_id |-> user_id, lat |-> lat, lon |-> lon,
                           days |-> days, req_id |-> req_id]>>
                   ELSE <<>>,
          log  |-> IF db = "ok" THEN DbLog("db_write_ok", "", lat, lon, days)
                   ELSE DbLog("db_write_fail", db, lat, lon, days)]

\* Result: raised (never: the except swallows), rows: the rows committed.
_save_stats(env, db, user_id, lat, lon, days, req_id) ==
    IF ~env.psycopg2
    THEN [raised |-> FALSE, rows |-> <<>>,
          log |-> DbLog("db_skip reason=no_psycopg2", "", lat, lon, days)]
    ELSE IF ~env.DB_ENV
    THEN [raised |-> FALSE, rows |-> <<>>,
          log |-> DbLog("db_skip reason=env_incomplete", "", lat, lon, days)]
    ELSE [raised |-> FALSE,
          rows |-> IF DbCommitted(db)
                   THEN <<[user_id |-> user_id, lat |-> lat, lon |-> lon,
                           days |-> days, req_id |-> req_id]>>
                   ELSE <<>>,
          log  |-> IF db = "ok" THEN DbLog("db_write_ok", "", lat, lon, days)
                   ELSE DbLog("db_write_fail", db, lat, lon, days)]

\* What the network did with a request of stage 1.
NetResponse(status, json, error, doc) ==
    [kind |-> "response", status |-> status, json |-> json, error |-> error, doc |-> doc]
NetConnectFail == [kind |-> "connect_fail", status |-> 0, json |-> FALSE, error |-> "", doc |-> NoDoc]
NetReadTimeout == [kind |-> "read_timeout", status |-> 0, json |-> FALSE, error |-> "", doc |-> NoDoc]
NoNet          == [kind |-> "none", status |-> 0, json |-> FALSE, error |-> "", doc |-> NoDoc]

HttpRaised == [raised |-> TRUE, body |-> NoResult, code |-> 0]
HttpResult(body, code) == [raised |-> FALSE, body |-> body, code |-> code]

\* r.json() / json.loads(body), else {"raw": text[:1000]}
ParsedBody(net) ==
    IF net.json THEN F2Result("json", net.error, net.doc) ELSE F2Result("raw", "", NoDoc)

\* Both HTTP helpers treat the answer alike.  With requests any transport
\* exception leaves the helper; urlopen turns statuses >= 400 into HTTPError
\* and connection failures into URLError, which are caught, while a timeout
\* on reading the response is neither.
HttpAnswer(has_requests, net) ==
    IF has_requests
    THEN IF net.kind = "response" THEN HttpResult(ParsedBody(net), net.status)
         ELSE HttpRaised
    ELSE CASE net.kind = "response" /\ net.status < 400 ->
                 HttpResult(ParsedBody(net), net.status)
           [] net.kind = "response" /\ net.status >= 400 ->
                 HttpResult(F2Result("http_error", "http", NoDoc), net.status)
           [] net.kind = "connect_fail" ->
                 HttpResult(F2Result("network", "network", NoDoc), 502)
           [] OTHER -> HttpRaised

_http_get(has_requests, net) == HttpAnswer(has_requests, net)

_http_post_json(has_requests, net) == HttpAnswer(has_requests, net)

Truthy(v) == v # NONE /\ v # Str(<<>>)

\* os.getenv("IAM_TOKEN"), else the metadata endpoint, else None; a failure
\* of the metadata lookup is swallowed.
_iam_token(iam_env, meta) ==
    IF Truthy(iam_env) THEN iam_env
    ELSE IF meta = "token" THEN Str(<<"m", "t">>)
    ELSE NONE

\* One outbound forecast call.
F2Call(via, method, lat, lon, days, req_id, auth) ==
    [via |-> via, method |-> method, lat |-> lat, lon |-> lon, days |-> days,
     request_id |-> req_id, auth |-> auth]

\* Result: raised/body/code of the HTTP helper, calls: the calls made.
_call_f2(env, lat, lon, days, req_id, iam_env, meta, net) ==
    LET made(r, call) ==
            [raised |-> r.raised, body |-> r.body, code |-> r.code, calls |-> <<call>>]
    IN IF Truthy(env.F2_URL)
       THEN made(_http_get(env.requests, net),
                 F2Call("F2_URL", "GET", lat, lon, days, req_id, NONE))
       ELSE IF ~Truthy(env.FORECAST_FUNCTION_ID)
       THEN [raised |-> FALSE, body |-> F2Result("dict", "F2 endpoint not configured", NoDoc),
             code |-> 500, calls |-> <<>>]
       ELSE made(_http_post_json(env.requests, net),
                 F2Call("invoke", "POST", lat, lon, days, req_id, _iam_token(iam_env, meta)))

\* every status >= 500 forced to exactly 502
OuterStatus_forced(code) ==
    IF code = 200 THEN 200 ELSE IF code >= 500 THEN 502 ELSE code

\* status = 200 if f2_code == 200 else max(f2_code, 502 if f2_code >= 500 else f2_code)
OuterStatus(code) ==
    IF code = 200 THEN 200
    ELSE Max(code, IF code >= 500 THEN 502 ELSE code)

\* (event.get("requestContext") or {}).get("requestId") or str(uuid.uuid4())
RequestId(event, uuid) == IF Truthy(Get(event.requestId)) THEN event.requestId ELSE uuid

\* Result: resp (the envelope, or F1Raised), log/rows of the telemetry
\* write, calls/code of the forecast call.
handler_f1(event, env, uuid, db, iam_env, meta, net) ==
    LET requested(q) == [lat |-> q.lat, lon |-> q.lon, days |-> q.days, user_id |-> q.user_id]
        answered(req_id, q, saved, f2) ==
            IF saved.raised
            THEN [resp |-> F1Raised, log |-> saved.log, rows |-> saved.rows,
                  calls |-> <<>>, code |-> 0]
            ELSE IF f2.raised
            THEN [resp |-> F1Raised, log |-> saved.log, rows |-> saved.rows,
                  calls |-> f2.calls, code |-> 0]
            ELSE [resp  |-> _ok(req_id, requested(q), f2.body, OuterStatus(f2.code)),
                  log   |-> saved.log,
                  rows  |-> saved.rows,
                  calls |-> f2.calls,
                  code  |-> f2.code]
        parsed(req_id, q) ==
            IF ~q.ok
            THEN [resp |-> _err(q.msg, 400), log |-> NoDbLog, rows |-> <<>>,
                  calls |-> <<>>, code |-> 0]
            ELSE answered(req_id, q,
                          _save_stats(env, db, q.user_id, q.lat, q.lon, q.days, req_id),
                          _call_f2(env, q.lat, q.lon, q.days, req_id, iam_env, meta, net))
    IN parsed(RequestId(event, uuid), _parse(event))

----------------------------------------------------------------------------
(* Inputs of stage 2 *)

ApiKeys == {NONE, Str(<<>>), Str(<<"m", "o", "c", "k">>), Str(<<"k", "1">>)}

\* Provider days: every temperature present (with fractions), or none.
ProviderDayKinds ==
    { [date |-> 0, temp_avg |-> Num(125), temp_min |-> Num(-47),
       temp_max |-> Num(171), feels_like |-> Num(101)],
      [date |-> 0, temp_avg |-> ABSENT, temp_min |-> ABSENT,
       temp_max |-> ABSENT, feels_like |-> ABSENT] }

ProviderDayLists ==
    UNION { { [i \in 1..n |-> [k[i] EXCEPT !.date = i]] : k \in [1..n -> ProviderDayKinds] }
            : n \in 0..MaxProviderDays }

Facts == {NoFact, [nonempty |-> TRUE, temp |-> Num(-35), feels_like |-> ABSENT]}

Payloads ==
    { [NoPayload EXCEPT !.shape = "badjson"], [NoPayload EXCEPT !.shape = "malformed"] }
    \cup { [shape |-> "ok", fact |-> f, forecasts |-> l] : f \in Facts, l \in ProviderDayLists }

ProviderOutcomes ==
    {ProvExc, ProvResp(403, NoPayload), ProvResp(500, NoPayload)}
    \cup { ProvResp(200, p) : p \in Payloads }

F2Lats == {ABSENT, Num(-91), Num(55), Num(90), Num(91)}
F2Lons == {ABSENT, Num(37), Num(181)}
F2Days == {ABSENT, NONE, Str(<<"3">>), Str(<<"x">>)} \cup { Num(d) : d \in -1..MaxReqDays }

NoBody == [kind |-> "absent", json |-> "ok", lat |-> ABSENT, lon |-> ABSENT, days |-> ABSENT]
NoQs   == [lat |-> ABSENT, lon |-> ABSENT, days |-> ABSENT]

\* Bodies that carry no object: the key is missing, null, or the text is no JSON
EmptyBodies ==
    { NoBody, [NoBody EXCEPT !.kind = "none"], [NoBody EXCEPT !.kind = "str", !.json = "malformed"] }

ObjectBodies ==
    { [kind |-> k, json |-> "ok", lat |-> la, lon |-> lo, days |-> d] :
        k \in {"str", "dict"}, la \in F2Lats, lo \in F2Lons, d \in F2Days }

SampleQs == { [lat |-> Str(<<"5", "5">>), lon |-> Str(<<"3", "7">>), days |-> Str(<<"3">>)] }

F2Events ==
    { [body |-> b, qs |-> NoQs] : b \in EmptyBodies \cup ObjectBodies }
    \cup { [body |-> b, qs |-> q] : b \in EmptyBodies, q \in SampleQs }

NoEvent == [body |-> NoBody, qs |-> NoQs]
NoResp  == [statusCode |-> 0, error |-> "", doc |-> NoDoc]

----------------------------------------------------------------------------
(* Inputs of stage 1 *)

Url == Str(<<"u", "r", "l">>)
Fid == Str(<<"f", "i", "d">>)

F1Envs ==
    [F2_URL : {NONE, Url}, FORECAST_FUNCTION_ID : {NONE, Fid},
     requests : BOOLEAN, psycopg2 : BOOLEAN, DB_ENV : BOOLEAN]

\* nothing configured, no optional library present
BareEnv ==
    [F2_URL |-> NONE, FORECAST_FUNCTION_ID |-> NONE,
     requests |-> FALSE, psycopg2 |-> FALSE, DB_ENV |-> FALSE]

F1Lats == {ABSENT, Str(<<"a", "b", "c">>), Str(<<"n", "a", "n">>), Str(<<"-", "9", "1">>),
           Str(<<"-", "9", "0">>), Str(<<"9", "0">>), Str(<<"9", "1">>)}
F1Lons == {ABSENT, Str(<<"-", "1", "8", "1">>), Str(<<"-", "1", "8", "0">>),
           Str(<<"1", "8", "0">>), Str(<<"1", "8", "1">>)}
F1Days == {ABSENT, Str(<<"x">>), Str(<<"0">>), Str(<<"1">>), Str(<<"7">>), Str(<<"8">>)}

F1Events ==
    { [qs |-> [lat |-> la, lon |-> lo, days |-> d, user_id |-> ABSENT], requestId |-> r] :
        la \in F1Lats, lo \in F1Lons, d \in F1Days, r \in {ABSENT, Str(<<"r", "1">>)} }

Uuids == {Str(<<"u", "1">>), Str(<<"u", "2">>)}

DbOutcomes == {"ok"} \cup { DbSteps[i] : i \in 1..Len(DbSteps) }

F2Statuses == {200, 204, 400, 404, 500, 501, 502, 503}

NetOutcomes ==
    {NetConnectFail, NetReadTimeout, NetResponse(200, FALSE, "", NoDoc)}
    \cup { NetResponse(st, TRUE, "", NoDoc) : st \in F2Statuses }

IamEnvs == {NONE, Str(<<"e", "t">>)}
MetaOutcomes == {"token", "fail"}

\* The inputs an invocation consumes: a uuid when the event names no request
\* id; the database, the token sources and the network when it reaches them.
UuidsFor(ev) == IF Truthy(Get(ev.requestId)) THEN {Str(<<"u", "1">>)} ELSE Uuids
DbFor(env, ev) == IF _parse(ev).ok /\ env.psycopg2 /\ env.DB_ENV THEN DbOutcomes ELSE {"ok"}
Invokes(env, ev) == _parse(ev).ok /\ ~Truthy(env.F2_URL) /\ Truthy(env.FORECAST_FUNCTION_ID)
IamFor(env, ev) == IF Invokes(env, ev) THEN IamEnvs ELSE {NONE}
MetaFor(env, ev, iam_env) == IF Invokes(env, ev) /\ ~Truthy(iam_env) THEN MetaOutcomes ELSE {"fail"}
NetFor(env, ev) ==
    IF _parse(ev).ok /\ (Truthy(env.F2_URL) \/ Truthy(env.FORECAST_FUNCTION_ID))
    THEN NetOutcomes ELSE {NetConnectFail}

NoF1Event == [qs |-> [lat |-> ABSENT, lon |-> ABSENT, days |-> ABSENT, user_id |-> ABSENT],
              requestId |-> ABSENT]
NoF1Resp  == _err("", 0)

----------------------------------------------------------------------------
(* Stage 2 as a state machine *)

\* Nothing of stage 2 has run.
Idle2 ==
    /\ f2_event = NoEvent
    /\ f2_prov = NoProv
    /\ f2_resp = NoResp
    /\ provider_calls = <<>>
    /\ mock_calls = 0

\* Nothing of stage 1 has run.
Idle1 ==
    /\ f1_event = NoF1Event
    /\ f1_resp = NoF1Resp
    /\ db_log = NoDbLog
    /\ db_rows = <<>>
    /\ f2_calls = <<>>
    /\ f2_code = 0
    /\ f2_net = NoNet

IdleRef == ref_resp = NoF1Resp /\ ref_calls = <<>>

\* The normalizer has not been run on its own.
NoNormIn == [data |-> NoPayload, days |-> 0]
IdleNorm ==
    /\ norm_in = NoNormIn
    /\ norm_at = <<0, 0>>
    /\ norm_first = Raise(0)
    /\ norm_second = Raise(0)

InitF2 ==
    /\ phase = "ready"
    /\ WEATHER_API_KEY \in ApiKeys
    /\ f1_env = BareEnv
    /\ Idle2 /\ Idle1 /\ IdleRef /\ IdleNorm

\* What an invocation of the stage-2 handler leaves in the state.
RunF2(ev, prov, now) ==
    LET out == handler_f2(ev, WEATHER_API_KEY, prov, now)
    IN /\ f2_event' = ev
       /\ f2_resp' = [statusCode |-> out.statusCode, error |-> out.error, doc |-> out.doc]
       /\ provider_calls' = out.calls
       /\ mock_calls' = out.mocks
       /\ f2_prov' = IF out.calls # <<>> THEN prov ELSE NoProv

\* One invocation of the stage-2 handler.
InvokeF2 ==
    /\ phase = "ready"
    /\ \E ev \in F2Events, prov \in ProviderOutcomes, now \in Clock : RunF2(ev, prov, now)
    /\ phase' = "done"
    /\ UNCHANGED <<WEATHER_API_KEY, vars1, varsRef, varsNorm>>

\* The runtime keeps the process and its environment for the next event.
NextInvocation ==
    /\ phase = "done"
    /\ phase' = "ready"
    /\ f2_event' = NoEvent
    /\ f2_prov' = NoProv
    /\ f2_resp' = NoResp
    /\ provider_calls' = <<>>
    /\ mock_calls' = 0
    /\ f1_event' = NoF1Event
    /\ f1_resp' = NoF1Resp
    /\ db_log' = NoDbLog
    /\ db_rows' = <<>>
    /\ f2_calls' = <<>>
    /\ f2_code' = 0
    /\ f2_net' = NoNet
    /\ ref_resp' = NoF1Resp
    /\ ref_calls' = <<>>
    /\ norm_in' = NoNormIn
    /\ norm_at' = <<0, 0>>
    /\ norm_first' = Raise(0)
    /\ norm_second' = Raise(0)
    /\ UNCHANGED <<WEATHER_API_KEY, f1_env>>

NextF2 == InvokeF2 \/ NextInvocation

SpecF2 == InitF2 /\ [][NextF2]_vars

----------------------------------------------------------------------------
(* Stage 1 as a state machine; the forecast function is the network's answer *)

InitF1 ==
    /\ phase = "ready"
    /\ WEATHER_API_KEY = NONE
    /\ f1_env \in F1Envs
    /\ Idle2 /\ Idle1 /\ IdleRef /\ IdleNorm

\* What an invocation of the stage-1 handler leaves in the state.
RunF1(ev, uuid, db, iam_env, meta, net) ==
    LET out == handler_f1(ev, f1_env, uuid, db, iam_env, meta, net)
    IN /\ f1_event' = ev
       /\ f1_resp' = out.resp
       /\ db_log' = out.log
       /\ db_rows' = out.rows
       /\ f2_calls' = out.calls
       /\ f2_code' = out.code
       /\ f2_net' = IF out.calls # <<>> THEN net ELSE NoNet

\* One invocation of the stage-1 handler.
InvokeF1 ==
    /\ phase = "ready"
    /\ \E ev \in F1Events :
         \E uuid \in UuidsFor(ev), db \in DbFor(f1_env, ev), iam_env \in IamFor(f1_env, ev),
            net \in NetFor(f1_env, ev) :
           \E meta \in MetaFor(f1_env, ev, iam_env) :
              RunF1(ev, uuid, db, iam_env, meta, net)
    /\ phase' = "done"
    /\ UNCHANGED <<f1_env, vars2, varsRef, varsNorm>>

NextF1 == InvokeF1 \/ NextInvocation

SpecF1 == InitF1 /\ [][NextF1]_vars

----------------------------------------------------------------------------
(* Two runs of the stage-1 handler on the same event, request id and forecast
   answer: one with the database as it is, one with the telemetry write
   succeeding *)

WritingEnv(env) == [env EXCEPT !.psycopg2 = TRUE, !.DB_ENV = TRUE]

InvokeF1Twice ==
    /\ phase = "ready"
    /\ \E ev \in F1Events :
         \E uuid \in UuidsFor(ev), db \in DbFor(f1_env, ev), iam_env \in IamFor(f1_env, ev),
            net \in NetFor(f1_env, ev) :
           \E meta \in MetaFor(f1_env, ev, iam_env) :
              LET ref == handler_f1(ev, WritingEnv(f1_env), uuid, "ok", iam_env, meta, net)
              IN /\ RunF1(ev, uuid, db, iam_env, meta, net)
                 /\ ref_resp' = ref.resp
                 /\ ref_calls' = ref.calls
    /\ phase' = "done"
    /\ UNCHANGED <<f1_env, vars2, varsNorm>>

NextRef == InvokeF1Twice \/ NextInvocation

SpecRef == InitF1 /\ [][NextRef]_vars

----------------------------------------------------------------------------
(* The pipeline: the forecast call of stage 1 is delivered to the stage-2
   handler, whose envelope comes back as the HTTP response *)

\* without a database: the telemetry write is skipped
PipeEnvs == { e \in F1Envs : ~e.psycopg2 /\ ~e.DB_ENV }

\* Requests sent through both stages: the ends of every range, one value past
\* an end and one that does not parse.
PipeEvents ==
    { ev \in F1Events :
        /\ ev.requestId = ABSENT
        /\ ev.qs.lat \in {Str(<<"a", "b", "c">>), Str(<<"-", "9", "0">>), Str(<<"9", "0">>)}
        /\ ev.qs.lon \in {Str(<<"-", "1", "8", "0">>), Str(<<"1", "8", "0">>), Str(<<"1", "8", "1">>)}
        /\ ev.qs.days \in {ABSENT, Str(<<"1">>), Str(<<"7">>), Str(<<"8">>)} }

InitPipe ==
    /\ phase = "ready"
    /\ WEATHER_API_KEY \in ApiKeys
    /\ f1_env \in PipeEnvs
    /\ Idle2 /\ Idle1 /\ IdleRef /\ IdleNorm

\* The event stage 2 receives for a call of stage 1.  GET (requests params /
\* urlencode): the payload is the query string, and the body is what the
\* gateway puts there for a request without one.  POST: the payload is the
\* JSON text of the body.
Deliver(call, getbody) ==
    IF call.method = "GET"
    THEN [qs   |-> [lat  |-> Str(FloatText(call.lat.n)),
                    lon  |-> Str(FloatText(call.lon.n)),
                    days |-> Str(IntText(call.days.n))],
          body |-> getbody]
    ELSE [qs   |-> NoQs,
          body |-> [kind |-> "str", json |-> "ok",
                    lat |-> call.lat, lon |-> call.lon, days |-> call.days]]

InvokePipeline ==
    /\ phase = "ready"
    /\ \E ev \in PipeEvents :
         \E uuid \in UuidsFor(ev), iam_env \in IamFor(f1_env, ev) :
           \E meta \in MetaFor(f1_env, ev, iam_env) :
             \* the request stage 1 sends does not depend on its answer
             LET calls == handler_f1(ev, f1_env, uuid, "ok", iam_env, meta, NetConnectFail).calls
             IN IF calls = <<>>
                THEN /\ RunF1(ev, uuid, "ok", iam_env, meta, NetConnectFail)
                     /\ UNCHANGED vars2
                ELSE LET post == calls[1].method = "POST"
                         live == post /\ ~Falsy(WEATHER_API_KEY)
                     IN \E getbody \in (IF post THEN {NoBody} ELSE EmptyBodies),
                           prov \in (IF live THEN ProviderOutcomes ELSE {ProvExc}),
                           now \in (IF live THEN Clock ELSE {0}) :
                          LET ev2  == Deliver(calls[1], getbody)
                              out2 == handler_f2(ev2, WEATHER_API_KEY, prov, now)
                              net  == NetResponse(out2.statusCode, TRUE, out2.error, out2.doc)
                          IN /\ RunF2(ev2, prov, now)
                             /\ RunF1(ev, uuid, "ok", iam_env, meta, net)
    /\ phase' = "done"
    /\ UNCHANGED <<WEATHER_API_KEY, f1_env, varsRef, varsNorm>>

NextPipe == InvokePipeline \/ NextInvocation

SpecPipe == InitPipe /\ [][NextPipe]_vars

----------------------------------------------------------------------------
(* The normalizer on its own: process_yandex_weather_data applied twice to
   the same payload and day count, at two moments *)

\* A provider day with each of the four temperature fields present or not.
NormDayKinds ==
    { [date |-> 0, temp_avg |-> a, temp_min |-> lo, temp_max |-> hi, feels_like |-> f] :
        a \in {ABSENT, Num(125)}, lo \in {ABSENT, Num(-47)},
        hi \in {ABSENT, Num(171)}, f \in {ABSENT, Num(101)} }

NormDayLists ==
    UNION { { [i \in 1..n |-> [k[i] EXCEPT !.date = i]] : k \in [1..n -> NormDayKinds] }
            : n \in 0..MaxNormDays }

\* The current-conditions block: {} , or a block in which temp and
\* feels_like are each missing, null or a number.
NormFacts ==
    {NoFact}
    \cup { [nonempty |-> TRUE, temp |-> t, feels_like |-> f] :
             t \in {ABSENT, NONE, Num(-35)}, f \in {ABSENT, Num(-62)} }

NormPayloads ==
    { [NoPayload EXCEPT !.shape = "malformed"] }
    \cup { [shape |-> "ok", fact |-> f, forecasts |-> l] : f \in NormFacts, l \in NormDayLists }

NormDays == -1..(MaxNormDays + 1)

\* the second run is not earlier than the first
NormMoments == { <<t1, t2>> \in Clock \X Clock : t1 <= t2 }

InitNorm ==
    /\ phase = "ready"
    /\ WEATHER_API_KEY = NONE
    /\ f1_env = BareEnv
    /\ Idle2 /\ Idle1 /\ IdleRef /\ IdleNorm

NormalizeTwice ==
    /\ phase = "ready"
    /\ \E data \in NormPayloads, days \in NormDays, at \in NormMoments :
         /\ norm_in' = [data |-> data, days |-> days]
         /\ norm_at' = at
         /\ norm_first' = process_yandex_weather_data(data, days, at[1])
         /\ norm_second' = process_yandex_weather_data(data, days, at[2])
    /\ phase' = "done"
    /\ UNCHANGED <<vars2, vars1, varsRef>>

NextNorm == NormalizeTwice \/ NextInvocation

SpecNorm == InitNorm /\ [][NextNorm]_vars

----------------------------------------------------------------------------
(* The earlier variant of stage 1: src/function1_weather_context.py.py *)

\* The envelope the variant returns: an error message, or status 200 around
\* whatever call_weather_forecast_function handed back.
VariantResp(status, msg, result) ==
    [raised |-> FALSE, statusCode |-> status, error |-> msg,
     req_id |-> NONE, requested |-> NoRequested, result |-> result]

\* Always attempts the write; every exception is logged and swallowed.
save_request_stats(db, user_id, lat, lon, days) ==
    [rows |-> IF DbCommitted(db)
              THEN <<[user_id |-> user_id, lat |-> lat, lon |-> lon,
                      days |-> days, req_id |-> NONE]>>
              ELSE <<>>,
     log  |-> IF db = "ok"
              THEN DbLog("Successfully saved request stats", "", lat, lon, days)
              ELSE DbLog("Error saving request stats", db, lat, lon, days)]

\* requests.post inside a try: a 200 answer is parsed, any other status and
\* any exception (transport, response.json()) become an error dict.
call_weather_forecast_function(lat, lon, days, net) ==
    [body  |-> IF net.kind = "response" /\ net.status = 200 /\ net.json
               THEN F2Result("json", net.error, net.doc)
               ELSE IF net.kind = "response" /\ net.status # 200
               THEN F2Result("dict", "Failed to get weather forecast", NoDoc)
               ELSE F2Result("dict", "Failed to call weather forecast service", NoDoc),
     code  |-> IF net.kind = "response" THEN net.status ELSE 0,
     calls |-> <<F2Call("invoke", "POST", lat, lon, days, NONE, NONE)>>]

\* Result: resp, log/rows of the telemetry write, calls/code of the
\* forecast call.
handler_variant(event, db, net) ==
    LET silent(resp) ==
            [resp |-> resp, log |-> NoDbLog, rows |-> <<>>, calls |-> <<>>, code |-> 0]
        forwarded(saved, f) ==
            [resp |-> VariantResp(200, "", f.body), log |-> saved.log, rows |-> saved.rows,
             calls |-> f.calls, code |-> f.code]
        \* if days < 1 or days > 7: days = 5
        accepted(lat, lon, days, user_id) ==
            forwarded(save_request_stats(db, user_id, lat, lon, days),
                      call_weather_forecast_function(lat, lon, days, net))
        converted(lat, lon, days, user_id) ==
            IF ~lat.ok \/ ~lon.ok
            THEN silent(VariantResp(400, "Invalid latitude or longitude format", NoResult))
            ELSE accepted(lat.val, lon.val,
                          IF days.n < 1 \/ days.n > 7 THEN Num(5) ELSE days, user_id)
        read(lat, lon, days, user_id) ==
            IF ~days.ok                       \* int(...) raised: the outer except
            THEN silent(VariantResp(500, "Internal server error", NoResult))
            ELSE IF ~Truthy(lat) \/ ~Truthy(lon)
            THEN silent(VariantResp(400, "Latitude and longitude parameters are required",
                                    NoResult))
            ELSE converted(PyFloat(lat), PyFloat(lon), days.val, user_id)
    IN read(Get(event.qs.lat), Get(event.qs.lon), PyInt(GetOr(event.qs.days, Num(5))),
            GetOr(event.qs.user_id, Str(<<"a", "n", "o", "n", "y", "m", "o", "u", "s">>)))

VariantEvents == { ev \in F1Events : ev.requestId = ABSENT }

\* the database and the network are reached by a request that is forwarded
VariantForwards(ev) == handler_variant(ev, "ok", NetConnectFail).calls # <<>>
VariantDbFor(ev)  == IF VariantForwards(ev) THEN DbOutcomes ELSE {"ok"}
VariantNetFor(ev) == IF VariantForwards(ev) THEN NetOutcomes ELSE {NetConnectFail}

InitVariant ==
    /\ phase = "ready"
    /\ WEATHER_API_KEY = NONE
    /\ f1_env = BareEnv
    /\ Idle2 /\ Idle1 /\ IdleRef /\ IdleNorm

RunVariant(ev, out, net) ==
    /\ f1_event' = ev
    /\ f1_resp' = out.resp
    /\ db_log' = out.log
    /\ db_rows' = out.rows
    /\ f2_calls' = out.calls
    /\ f2_code' = out.code
    /\ f2_net' = IF out.calls # <<>> THEN net ELSE NoNet

\* One invocation of the variant's handler.
InvokeVariant ==
    /\ phase = "ready"
    /\ \E ev \in VariantEvents :
         \E db \in VariantDbFor(ev), net \in VariantNetFor(ev) :
            RunVariant(ev, handler_variant(ev, db, net), net)
    /\ phase' = "done"
    /\ UNCHANGED <<f1_env, vars2, varsRef, varsNorm>>

NextVariant == InvokeVariant \/ NextInvocation

SpecVariant == InitVariant /\ [][NextVariant]_vars

----------------------------------------------------------------------------
(* Properties of stage 2 *)

\* The stage-2 handler has answered a request whose body is an object.
F2Answered == phase = "done" /\ f2_event.body.kind \in {"str", "dict"} /\ f2_event.body.json = "ok"

\* ... and that object carries numeric lat and lon and an integer days.
F2Numeric ==
    /\ F2Answered
    /\ f2_event.body.lat.t = "num"
    /\ f2_event.body.lon.t = "num"
    /\ f2_event.body.days.t \in {"num", "absent"}

\* the day count of the request (5 when absent)
F2ReqDays == IF f2_event.body.days.t = "num" THEN f2_event.body.days.n ELSE 5

F2InRange ==
    /\ f2_event.body.lat.n \in -90..90
    /\ f2_event.body.lon.n \in -180..180
    /\ F2ReqDays \in 1..7

KeyConfigured == WEATHER_API_KEY # NONE /\ WEATHER_API_KEY # Str(<<>>)

PrimaryContacted   == \E i \in 1..Len(provider_calls) : provider_calls[i].provider = "primary"
SecondaryContacted == \E i \in 1..Len(provider_calls) : provider_calls[i].provider = "secondary"

\* The contacted provider did not yield a normalized document.
ProviderFailed ==
    /\ provider_calls # <<>>
    /\ \/ f2_prov.kind = "exception"
       \/ f2_prov.status # 200
       \/ f2_prov.payload.shape \in {"badjson", "malformed"}

\* C1: a request with numeric lat/lon and days in 1..7 whose provider call
\* failed, or for which no API key is configured, is answered with status 200
\* and a document of the synthetic generator.
C1_FallbackGuarantee ==
    (F2Numeric /\ F2ReqDays \in 1..7 /\ (~KeyConfigured \/ ProviderFailed))
        => (f2_resp.statusCode = 200 /\ f2_resp.doc.data_source = "Mock data")

\* C2: a request with lat outside [-90,90], lon outside [-180,180] or days
\* outside [1,7] is answered with status 400 and an error message, and causes
\* no provider call and no generated forecast.
C2_OutOfRangeRejected ==
    (F2Numeric /\ ~F2InRange)
        => /\ f2_resp.statusCode = 400
           /\ f2_resp.error # ""
           /\ provider_calls = <<>>
           /\ mock_calls = 0

C9_ForecastDaysIsLength ==
    (phase = "done" /\ f2_resp.statusCode = 200)
        => f2_resp.doc.forecast_days = Len(f2_resp.doc.forecast)

\* a document with fewer days than requested was returned
C9_Witness ==
    /\ F2Numeric
    /\ f2_resp.statusCode = 200
    /\ F2ReqDays = 3
    /\ Len(f2_resp.doc.forecast) = 2
    /\ f2_resp.doc.forecast_days = 2

\* C10: the forecast list of a returned document is no longer than
\* min(requested days, days the provider returned) and no longer than 7.
C10_LengthBounded ==
    (F2Numeric /\ f2_resp.statusCode = 200)
        => /\ Len(f2_resp.doc.forecast) <= Min(F2ReqDays, Len(f2_prov.payload.forecasts))
           /\ Len(f2_resp.doc.forecast) <= 7

----------------------------------------------------------------------------
(* Properties of stage 1 *)

F1Answered == phase = "done" /\ f1_event # NoF1Event

\* The query text v is the decimal numeral of an integer in lo..hi.
Numerals(lo, hi) == { Str(IntText(k)) : k \in lo..hi }
LatNumerals     == Numerals(-90, 90)
LonNumerals     == Numerals(-180, 180)
DaysNumerals    == Numerals(1, 7)
OutsideNumerals == Numerals(-99, 0) \cup Numerals(8, 99)

\* the integer a numeral in lo..hi stands for
NumeralValue(v, lo, hi) == CHOOSE k \in lo..hi : v = Str(IntText(k))

QsLatOk  == f1_event.qs.lat \in LatNumerals
QsLonOk  == f1_event.qs.lon \in LonNumerals
QsDaysOk == f1_event.qs.days = ABSENT \/ f1_event.qs.days \in DaysNumerals

QsLat  == Num(NumeralValue(f1_event.qs.lat, -90, 90))
QsLon  == Num(NumeralValue(f1_event.qs.lon, -180, 180))
QsDays == IF f1_event.qs.days = ABSENT THEN Num(5) ELSE Num(NumeralValue(f1_event.qs.days, 1, 7))

\* days is a numeral of an integer outside 1..7
QsDaysOutside == f1_event.qs.days \in OutsideNumerals

\* C3: for a request whose lat, lon and days parse and lie in range, telemetry
\* and the forecast call are given exactly the parsed values; a request with
\* lat, lon or days out of range or an absent or non-numeric coordinate gets
\* status 400 with an error body, no telemetry write and no forecast call.
C3_ParseContract ==
    F1Answered =>
        /\ (QsLatOk /\ QsLonOk /\ QsDaysOk) =>
              /\ db_log.line # "none"
              /\ db_log.lat = QsLat /\ db_log.lon = QsLon /\ db_log.days = QsDays
              /\ \A i \in 1..Len(db_rows) :
                    db_rows[i].lat = QsLat /\ db_rows[i].lon = QsLon /\ db_rows[i].days = QsDays
              /\ \A i \in 1..Len(f2_calls) :
                    f2_calls[i].lat = QsLat /\ f2_calls[i].lon = QsLon /\ f2_calls[i].days = QsDays
        /\ (~QsLatOk \/ ~QsLonOk \/ QsDaysOutside) =>
              /\ ~f1_resp.raised
              /\ f1_resp.statusCode = 400
              /\ f1_resp.error # ""
              /\ db_log = NoDbLog
              /\ db_rows = <<>>
              /\ f2_calls = <<>>

\* a request on the boundary of every range wrote its row and was forwarded
C3_Witness ==
    /\ F1Answered
    /\ f1_event.qs.lat = Str(<<"-", "9", "0">>)
    /\ f1_event.qs.lon = Str(<<"1", "8", "0">>)
    /\ f1_event.qs.days = Str(<<"7">>)
    /\ Len(db_rows) = 1 /\ db_rows[1].lat = Num(-90) /\ db_rows[1].days = Num(7)
    /\ Len(f2_calls) = 1 /\ f2_calls[1].lon = Num(180)

\* the handler returned an envelope built from a forecast-call status
F1Mapped == F1Answered /\ ~f1_resp.raised /\ f2_code # 0

\* C4 as stated: the outer status is exactly 502 when the forecast call
\* reported s >= 500, s when 400 <= s < 500, and 200 in every other case.
C4_StatusMapping ==
    F1Mapped =>
        f1_resp.statusCode =
            IF f2_code >= 500 THEN 502
            ELSE IF f2_code >= 400 THEN f2_code
            ELSE 200

\* C4 amended: the outer status is 200 when s = 200, 502 when s is 500 or 501,
\* and s itself in every other case (s >= 502 included).
C4_StatusMappingAmended ==
    F1Mapped =>
        f1_resp.statusCode =
            IF f2_code = 200 THEN 200
            ELSE IF f2_code \in {500, 501} THEN 502
            ELSE f2_code

\* the forecast call reported 503 and the caller got 503
C4_Witness == F1Mapped /\ f2_code = 503 /\ f1_resp.statusCode = 503

\* C5: with neither F2_URL nor FORECAST_FUNCTION_ID configured a valid
\* request is answered with status 500 and a misconfiguration message, and no
\* forecast call is made.
C5_NotConfigured ==
    (F1Answered /\ QsLatOk /\ QsLonOk /\ QsDaysOk
       /\ f1_env.F2_URL = NONE /\ f1_env.FORECAST_FUNCTION_ID = NONE)
        => /\ ~f1_resp.raised
           /\ f1_resp.statusCode = 500
           /\ f1_resp.result.error = "F2 endpoint not configured"
           /\ f2_calls = <<>>

\* C6: the response (status and body, or the exception) and the forecast
\* calls are the same as in the run of the same request, request id and
\* forecast answer whose telemetry write succeeded -- whether this run's write
\* succeeded, failed at any step or was skipped.
C6_TelemetryNonInterference ==
    F1Answered => (f1_resp = ref_resp /\ f2_calls = ref_calls)

\* the insert failed, and the forecast call was made and answered all the same
C6_Witness ==
    /\ F1Answered
    /\ db_log.line = "db_write_fail" /\ db_log.step = "insert"
    /\ db_rows = <<>>
    /\ Len(f2_calls) = 1
    /\ f1_resp.statusCode = 200
    /\ ref_resp.statusCode = 200

----------------------------------------------------------------------------
(* Properties of the pipeline *)

\* C7: whichever way stage 1 delivers a valid payload (GET query string or
\* POST JSON body), the stage-2 handler reads lat, lon and days from it and
\* answers with status 200 and a forecast document for those values.  Stated
\* for the runs in which a key is configured and no provider call failed.
C7_CallContract ==
    (phase = "done" /\ f2_calls # <<>> /\ KeyConfigured /\ ~ProviderFailed)
        => /\ f2_resp.statusCode = 200
           /\ f2_resp.doc.data_source # "none"
           /\ Len(provider_calls) = 1
           /\ provider_calls[1].lat = f2_calls[1].lat
           /\ provider_calls[1].lon = f2_calls[1].lon
           /\ provider_calls[1].limit = f2_calls[1].days.n

----------------------------------------------------------------------------
(* Properties of the normalizer *)

\* The normalizer returned a document for a payload it could read.
NormReturned == phase = "done" /\ norm_in.data.shape = "ok" /\ ~norm_first.exc

\* the days it produced, the provider day and the entry of each
NormProduced == 1..Len(norm_first.doc.forecast)
NormSource(k) == norm_in.data.forecasts[k]
NormEntry(k)  == norm_first.doc.forecast[k]

\* The current-conditions block holds the field v / holds a number there.
FactHolds(v)   == norm_in.data.fact.nonempty /\ v # ABSENT
FactNumber(v)  == norm_in.data.fact.nonempty /\ v.t = "num"

\* No source gives day k an average / a feels-like temperature: the daily
\* block has none, and for the first day neither has the current-conditions
\* block.
AvgMissing(k) ==
    /\ Get(NormSource(k).temp_avg) = NONE
    /\ k = 1 => ~FactNumber(norm_in.data.fact.temp)
FeelsMissing(k) ==
    /\ Get(NormSource(k).feels_like) = NONE
    /\ k = 1 => ~FactNumber(norm_in.data.fact.feels_like)

\* C11: every produced day has its four temperatures as integers; with avg
\* the value emitted as temperature.day, a missing min is avg - 3, a missing
\* max is avg + 3, a missing feels-like is avg, and a missing avg is 0.
C11_TemperatureDefaults ==
    NormReturned =>
        \A k \in NormProduced :
            /\ NormEntry(k).day \in Int /\ NormEntry(k).min \in Int
            /\ NormEntry(k).max \in Int /\ NormEntry(k).feels_like \in Int
            /\ Get(NormSource(k).temp_min) = NONE => NormEntry(k).min = NormEntry(k).day - 3
            /\ Get(NormSource(k).temp_max) = NONE => NormEntry(k).max = NormEntry(k).day + 3
            /\ FeelsMissing(k) => NormEntry(k).feels_like = NormEntry(k).day
            /\ AvgMissing(k) => NormEntry(k).day = 0

\* The normalizer has been run twice on one payload and day count.
NormRan == phase = "done" /\ norm_in # NoNormIn

\* C12 as stated: the two runs, at any two moments, return documents
\* identical in every field.
C12_Idempotent == NormRan => norm_first = norm_second

\* C12 amended: the two runs end alike (both return or both raise) and their
\* documents agree in every field but generated_at, which is the moment of
\* each run.
C12_IdempotentButTimestamp ==
    NormRan =>
        /\ norm_first.exc = norm_second.exc
        /\ norm_first.mocks = norm_second.mocks
        /\ ~norm_first.exc =>
              /\ norm_first.doc.forecast_days = norm_second.doc.forecast_days
              /\ norm_first.doc.forecast = norm_second.doc.forecast
              /\ norm_first.doc.data_source = norm_second.doc.data_source
              /\ norm_first.doc.generated_at = norm_at[1]
              /\ norm_second.doc.generated_at = norm_at[2]

\* two runs at different moments returned two days each
C12_Witness ==
    /\ NormRan
    /\ norm_at[1] # norm_at[2]
    /\ ~norm_first.exc /\ ~norm_second.exc
    /\ Len(norm_first.doc.forecast) = 2
    /\ norm_first.doc.forecast = norm_second.doc.forecast
    /\ norm_first.doc.generated_at # norm_second.doc.generated_at

----------------------------------------------------------------------------
(* Properties of the forecast call's transport *)

\* The forecast call was made and got no HTTP response: the connection
\* failed, or the response timed out.
TransportFailed == F1Answered /\ f2_net.kind \in {"connect_fail", "read_timeout"}

\* C13: when the forecast call fails at transport level or times out, the
\* stage-1 handler returns an envelope with status 502 or 500 and does not
\* raise, on the GET and the POST path, with requests and with urllib.
C13_TransportNeverRaises ==
    TransportFailed => ~f1_resp.raised /\ f1_resp.statusCode \in {500, 502}

----------------------------------------------------------------------------
(* Properties of the earlier variant of stage 1 *)

\* days is given and is not the numeral of an integer in 1..7
QsDaysRejectable == f1_event.qs.days # ABSENT /\ f1_event.qs.days \notin DaysNumerals

\* C14: the variant answers 400 to a request whose days is outside 1..7 or
\* is not an integer, writes no telemetry for it and does not call the
\* forecast function.
C14_VariantRejectsDays ==
    (F1Answered /\ QsDaysRejectable)
        => /\ f1_resp.statusCode = 400
           /\ db_log = NoDbLog
           /\ db_rows = <<>>
           /\ f2_calls = <<>>

----------------------------------------------------------------------------
(* Properties of the current-conditions override *)

\* The day temperature the daily block of day k gives by itself.
OwnDay(k) ==
    IF Get(NormSource(k).temp_avg) # NONE THEN IntOfTenths(NormSource(k).temp_avg.n) ELSE 0

\* C15: the current-conditions block replaces the day and feels-like
\* temperature of the first day only, and only with the fields it holds;
\* every later day takes both from its own daily block.
C15_FactOnlyFirstDay ==
    NormReturned =>
        \A k \in NormProduced :
            \* not overridden: the day's own values
            /\ (k > 1 \/ ~FactHolds(norm_in.data.fact.temp)) => NormEntry(k).day = OwnDay(k)
            /\ (k > 1 \/ ~FactHolds(norm_in.data.fact.feels_like)) =>
                  (Get(NormSource(k).feels_like) # NONE =>
                      NormEntry(k).feels_like = IntOfTenths(NormSource(k).feels_like.n))
            /\ (k > 1 /\ Get(NormSource(k).feels_like) = NONE) =>
                  NormEntry(k).feels_like = OwnDay(k)
            \* overridden: the first day, by what the block holds
            /\ (k = 1 /\ FactNumber(norm_in.data.fact.temp)) =>
                  NormEntry(k).day = IntOfTenths(norm_in.data.fact.temp.n)
            /\ (k = 1 /\ FactHolds(norm_in.data.fact.temp) /\ norm_in.data.fact.temp = NONE) =>
                  NormEntry(k).day = 0
            /\ (k = 1 /\ FactNumber(norm_in.data.fact.feels_like)) =>
                  NormEntry(k).feels_like = IntOfTenths(norm_in.data.fact.feels_like.n)

\* two days with their own temperatures under a block holding both fields:
\* the first day shows the block's values, the second its own
C15_Witness ==
    /\ NormReturned
    /\ Len(norm_first.doc.forecast) = 2
    /\ FactNumber(norm_in.data.fact.temp) /\ FactNumber(norm_in.data.fact.feels_like)
    /\ \A k \in 1..2 : NormSource(k).temp_avg # ABSENT /\ NormSource(k).feels_like # ABSENT
    /\ NormEntry(1).day = -3 /\ NormEntry(1).feels_like = -6
    /\ NormEntry(2).day = 12 /\ NormEntry(2).feels_like = 10

====
